---- MODULE Spec2Model ----
(***************************************************************************)
(* henderiw/store: the in-memory stores (package memory, src/unnamed/      *)
(* part_002, and package memoryu, src/memoryu/memory.go), the              *)
(* WatcherManager (src/unnamed/part_004, src/watchermanager) and the       *)
(* list-and-watch protocol of a subscription (src/unnamed/part_005).       *)
(*                                                                         *)
(* Every goroutine is a process with a program counter.  A step is one     *)
(* critical section or one channel operation of the code.  While the       *)
(* consumer of a subscription is at its receive from ResultChannel a send  *)
(* on it is completed inside the step that makes it; while it is not, the  *)
(* sender is blocked with the locks it holds.                              *)
(***************************************************************************)
EXTENDS Integers, Sequences, FiniteSets, TLC

\* ------------------------------------------------------------------ bounds
Keys == {"a"}
\* the keys of SpecFn: the key the calls are made for and a bystander
FnKeys == {"a", "b"}
Vals == {1, 2}
Clients == {"c1", "c2"}
WatcherIds == {1, 2, 3}
\* the dispatch loop goroutines that can be alive at a time
Loops == {1, 2}
\* no dispatch loop: the nil of watcherManager.cancel
NoLoop == 0

\* calls each client goroutine makes under Spec
MaxOps == 1
\* calls the single client makes under SpecAdm
AdmOps == 1
\* calls the single client makes under SpecOrd
OrdOps == 3
\* calls the single client makes under SpecSeq
SeqOps == 3
\* calls the single client makes under SpecLife
LifeOps == 2
\* calls the single client makes under SpecCancel
CancelOps == 2
\* calls each client goroutine makes under SpecFn
FnOps == 1
\* calls the single client makes under SpecLoops
LoopOps == 2

\* calls the single client makes under SpecIso
IsoOps == 2

\* calls the single client makes under SpecLeave
LeaveOps == 2

\* calls the single client makes under SpecCtx
CtxOps == 2

\* calls the consumer goroutine makes under SpecReact
ReactOps == 2

\* the admission ceiling given to watchermanager.New, and the one of SpecAdm
Ceiling == 2
AdmCeiling == 1

\* the value of an absent key: the !ok of the map lookup in mem.Get
Nil == 0
\* no goroutine, no key, no call
None == "none"

VARIABLES
    impl,          \* which package the store is: "memory" or "memoryu", or
                   \* "file" for the file-backed ones (file, gitu), of which
                   \* only UpdateWithKeyFn is modelled
    db,            \* mem.db
    watching,      \* mem.watching
    wlock,         \* the goroutine inside mem.m.Lock(), or None
    cpc,           \* client goroutine: position in its Store call
    cop,           \* client goroutine: the call it is in
    cold,          \* client goroutine: what its Get returned
    csent,         \* client goroutine: the event this call handed to watchCh
    cleft,         \* client goroutine: calls it may still make
    script,        \* the calls a scripted client still has to make
    calls,         \* history: the finished calls of each client
    emitted,       \* history: the events received from watchCh, in order
    mustSee,       \* history: per subscription, the calls whose change of the
                   \* stored state was committed while it was registered and
                   \* after its snapshot
    watchers,      \* watcherManager.watchers: the registered subscriptions
    sem,           \* watcherManager.sem: units held (cur)
    size,          \* watcherManager.sem: size (maxWatchers)
    dpc,           \* per dispatch loop goroutine: "off", "spawned", "recv",
                   \* "wait", "exited"
    mctx,          \* per dispatch loop: the context it made with WithCancel:
                   \* "none" (not yet), "live", "cancelled"
    rcancel,       \* watcherManager.cancel: the loop whose context it
                   \* cancels, or NoLoop (nil)
    dtask,         \* per dispatch loop: the delivery task of its current
                   \* event, per subscription: "none", "isDone",
                   \* "OnChange", "sending" when its callback is blocked
                   \* in a send, or "panic" when its callback panicked
    dev,           \* per dispatch loop: the event it is delivering
    panicked,      \* the process died in a panic
    relCount,      \* history: sem.Release calls made for each subscription
    wpc,           \* subscription goroutine: position in ListAndWatch;
                   \* "listing" and "squeezing" when blocked in a send
    watchOnly,     \* the Watch field of the list option given to mem.Watch
    watchRet,      \* what mem.Watch returned to its caller
    sweep,         \* Add: the r.watchers.list() it iterates over
    swept,         \* history: the subscriptions the sweep of this Add released
    backlog,       \* innerListAndWatch: backlog
    chunk,         \* innerListAndWatch: chunk
    eventCallback, \* WatcherU.eventCallback: "none", "backlog", "stream"
    done,          \* WatcherU.done
    cancelled,     \* ctx.Err() != nil of the subscription's context
    werr,          \* what innerListAndWatch returned
    received,      \* history: what the consumer received from ResultChannel
    consumer       \* who receives from ResultChannel: "none" for a goroutine
                   \* that does nothing else, a client goroutine that also
                   \* calls the store, or "left" when nobody receives any more

vars == <<impl, db, watching, wlock, cpc, cop, cold, csent, cleft, script,
          calls, emitted, mustSee, watchers, sem, size, dpc, mctx, dtask, dev,
          panicked, relCount, wpc, watchOnly, watchRet, sweep, backlog, chunk,
          eventCallback, done, cancelled, werr, received, swept, rcancel,
          consumer>>

storeVars == <<impl, db, watching, wlock>>
clientVars == <<cpc, cop, cold, csent, cleft, script, calls>>
managerVars == <<watchers, sem, size, panicked, relCount>>
dispatchVars == <<dpc, dtask, dev, mctx, rcancel>>
watcherVars == <<wpc, watchOnly, watchRet, sweep, backlog, chunk,
                 eventCallback, done, cancelled, werr, received, swept,
                 consumer>>

\* ------------------------------------------------------------------ events
NoOp == [op |-> None, key |-> None, val |-> Nil, id |-> <<None, 0>>]
NoEvent == [type |-> None, key |-> None, val |-> Nil, id |-> <<None, 0>>]

WatchEvent(t, k, v, id) == [type |-> t, key |-> k, val |-> v, id |-> id]

\* what the consumer holds for a received event: the event and the way it took
Got(ev, via) ==
    [type |-> ev.type, key |-> ev.key, val |-> ev.val, id |-> ev.id,
     via |-> via]

\* ------------------------------------------------------------------- store
\* the goroutines holding mem.m.RLock(): a client blocked in notifyWatcher on
\* its send to watchCh
Readers == {c \in Clients : cpc[c] = "send"}

\* the subscription goroutines holding mem.m.RLock(): inside s.List, blocked
\* in the send of a listed object to a consumer that does not receive
Listers == {w \in WatcherIds : wpc[w] = "listing"}

\* the consumer of w is at its receive from ResultChannel
Receives(w) ==
    /\ consumer[w] # "left"
    /\ consumer[w] \in Clients => cpc[consumer[w]] = "idle"

\* WatcherU.m is held by a goroutine blocked in a send on ResultChannel: the
\* forwarding callback, or innerListAndWatch sending what squeezed in
MLocked(w) ==
    \/ wpc[w] = "squeezing"
    \/ \E l \in Loops : dtask[l][w] = "sending"

\* mem.m.RLock() returns: no writer is inside Lock()
RLockFree == wlock = None

\* the event of a call when an Update never reports Added
EventOfUpdateModified(o, old) ==
    CASE o.op = "Create" -> WatchEvent("Added", o.key, o.val, o.id)
      [] o.op = "Delete" -> WatchEvent("Deleted", o.key, old, o.id)
      [] o.op = "Update" -> WatchEvent("Modified", o.key, o.val, o.id)
      [] OTHER -> WatchEvent(IF old = Nil THEN "Added" ELSE "Modified",
                             o.key, o.val, o.id)

\* the event of a call when Deleted carries the object of the call, not the
\* one that was stored
EventOfDeletedNew(o, old) ==
    CASE o.op = "Create" -> WatchEvent("Added", o.key, o.val, o.id)
      [] o.op = "Delete" -> WatchEvent("Deleted", o.key, o.val, o.id)
      [] OTHER -> WatchEvent(IF old = Nil THEN "Added" ELSE "Modified",
                             o.key, o.val, o.id)

\* the event a call hands to notifyWatcher
EventOf(o, old) ==
    CASE o.op = "Create" -> WatchEvent("Added", o.key, o.val, o.id)
      [] o.op = "Delete" -> WatchEvent("Deleted", o.key, old, o.id)
      [] OTHER -> WatchEvent(IF old = Nil THEN "Added" ELSE "Modified",
                             o.key, o.val, o.id)

\* a client may start this call now.  The client goroutines run the same
\* code: c1 names the one that makes the first call.
CanCall(c, op, k, v) ==
    /\ ~panicked
    /\ cpc[c] = "idle"
    /\ cleft[c] > 0
    /\ c # "c1" => cpc["c1"] # "idle" \/ calls["c1"] # <<>>
    /\ script[c] # <<>> => Head(script[c]) = <<op, k, v>>

\* the call is entered and its probe of the key is made: r.Get, or in Apply of
\* package memoryu the lookup r.db[key]
Begin(c) ==
    /\ cleft' = [cleft EXCEPT ![c] = @ - 1]
    /\ script' = [script EXCEPT ![c] = IF @ = <<>> THEN @ ELSE Tail(@)]

Call(c, op, k, v) == [op |-> op, key |-> k, val |-> v, id |-> <<c, cleft[c]>>]

\* the call o of client c, whose probe returned old, goes on at pc
Goto(c, pc, o, old) ==
    /\ cpc' = [cpc EXCEPT ![c] = pc]
    /\ cop' = [cop EXCEPT ![c] = o]
    /\ cold' = [cold EXCEPT ![c] = old]
    /\ calls' = calls

\* the call o of client c returns ret; ev is the event it handed to watchCh
\* and post the value stored for its key as it returns
Return(c, o, old, ret, ev, post) ==
    /\ cpc' = [cpc EXCEPT ![c] = "idle"]
    /\ cop' = [cop EXCEPT ![c] = NoOp]
    /\ cold' = [cold EXCEPT ![c] = Nil]
    /\ calls' = [calls EXCEPT ![c] = Append(@,
                   [op |-> o.op, key |-> o.key, val |-> o.val, pre |-> old,
                    post |-> post, ret |-> ret, ev |-> ev])]

\* a Create that does not look whether the key exists
CreateOverwrite(c, k, v) ==
    /\ CanCall(c, "Create", k, v)
    /\ RLockFree
    /\ Begin(c)
    /\ Goto(c, "update", Call(c, "Create", k, v), db[k])
    /\ UNCHANGED <<storeVars, csent, emitted, mustSee, managerVars,
                   dispatchVars, watcherVars>>

\* mem.Create up to its call of r.update
Create(c, k, v) ==
    /\ CanCall(c, "Create", k, v)
    /\ RLockFree
    /\ Begin(c)
    /\ IF db[k] # Nil
         THEN Return(c, Call(c, "Create", k, v), db[k], "duplicate entry",
                     NoEvent, db[k])
         ELSE Goto(c, "update", Call(c, "Create", k, v), db[k])
    /\ UNCHANGED <<storeVars, csent, emitted, mustSee, managerVars,
                   dispatchVars, watcherVars>>

\* mem.Update up to its call of r.update
Update(c, k, v) ==
    /\ CanCall(c, "Update", k, v)
    /\ RLockFree
    /\ Begin(c)
    /\ Goto(c, "update", Call(c, "Update", k, v), db[k])
    /\ UNCHANGED <<storeVars, csent, emitted, mustSee, managerVars,
                   dispatchVars, watcherVars>>

\* mem.Apply up to its call of r.update.  Package memory probes with r.Get;
\* package memoryu reads r.db[key] outside the lock.
Apply(c, k, v) ==
    /\ CanCall(c, "Apply", k, v)
    /\ impl = "memory" => RLockFree
    /\ Begin(c)
    /\ Goto(c, "update", Call(c, "Apply", k, v), db[k])
    /\ UNCHANGED <<storeVars, csent, emitted, mustSee, managerVars,
                   dispatchVars, watcherVars>>

\* mem.Delete up to the first step after its r.Get: r.delete in package
\* memory, r.notifyWatcher in package memoryu
Delete(c, k) ==
    /\ CanCall(c, "Delete", k, Nil)
    /\ RLockFree
    /\ Begin(c)
    /\ IF db[k] = Nil
         THEN Return(c, Call(c, "Delete", k, Nil), Nil, "nil", NoEvent, Nil)
         ELSE Goto(c, IF impl = "memory" THEN "delete" ELSE "notify",
                   Call(c, "Delete", k, Nil), db[k])
    /\ UNCHANGED <<storeVars, csent, emitted, mustSee, managerVars,
                   dispatchVars, watcherVars>>

\* r.m.Lock() of mem.update and mem.delete: the writer is announced, new
\* readers wait, the writer waits for the readers inside
Lock(c) ==
    /\ ~panicked
    /\ cpc[c] \in {"update", "delete"}
    /\ wlock = None
    /\ wlock' = c
    /\ cpc' = [cpc EXCEPT ![c] = "locked"]
    /\ UNCHANGED <<impl, db, watching, cop, cold, csent, cleft, script, calls,
                   emitted, mustSee, managerVars, dispatchVars, watcherVars>>

\* where a call goes when Update notifies without comparing old and new
AfterWriteAlways(o, old) ==
    CASE o.op = "Delete" -> IF impl = "memory" THEN "notify" ELSE "return"
      [] OTHER -> "notify"

\* where a call goes when Apply, like Update, notifies only of a new value
AfterWriteApplyDiff(o, old) ==
    CASE o.op = "Delete" -> IF impl = "memory" THEN "notify" ELSE "return"
      [] o.op \in {"Update", "Apply"} /\ old # Nil /\ old = o.val -> "return"
      [] OTHER -> "notify"

\* where a call goes after r.update / r.delete returned
AfterWrite(o, old) ==
    CASE o.op = "Delete" -> IF impl = "memory" THEN "notify" ELSE "return"
      [] o.op = "Update" /\ old # Nil /\ old = o.val -> "return"
      [] OTHER -> "notify"

\* the body of mem.update and mem.delete, and r.m.Unlock()
update(c) ==
    /\ ~panicked
    /\ cpc[c] = "locked"
    /\ wlock = c
    /\ Readers = {}
    /\ Listers = {}
    /\ LET o == cop[c]
       IN /\ db' = [db EXCEPT ![o.key] = o.val]
          /\ wlock' = None
          /\ mustSee' = [w \in WatcherIds |->
                IF w \in watchers /\ db[o.key] # o.val
                  THEN mustSee[w] \cup {o.id} ELSE mustSee[w]]
          /\ IF AfterWrite(o, cold[c]) = "return"
               THEN /\ Return(c, o, cold[c], "nil", csent[c], o.val)
                    /\ csent' = [csent EXCEPT ![c] = NoEvent]
               ELSE /\ Goto(c, "notify", o, cold[c])
                    /\ csent' = csent
    /\ UNCHANGED <<impl, watching, cleft, script, emitted, managerVars,
                   dispatchVars, watcherVars>>

\* where a call goes after r.notifyWatcher returned
AfterNotify(o) ==
    IF o.op = "Delete" /\ impl = "memoryu" THEN "delete" ELSE "return"

\* a notifyWatcher that sends whether or not the store is started
notifyAlways(c) ==
    /\ ~panicked
    /\ cpc[c] = "notify"
    /\ RLockFree
    /\ Goto(c, "send", cop[c], cold[c])
    /\ UNCHANGED <<storeVars, csent, cleft, script, emitted, mustSee,
                   managerVars, dispatchVars, watcherVars>>

\* mem.notifyWatcher up to its send: r.m.RLock(), and unless r.watching the
\* return
notifyWatcher(c) ==
    /\ ~panicked
    /\ cpc[c] = "notify"
    /\ RLockFree
    /\ IF watching
         THEN Goto(c, "send", cop[c], cold[c])
         ELSE IF AfterNotify(cop[c]) = "return"
                THEN Return(c, cop[c], cold[c], "nil", NoEvent, db[cop[c].key])
                ELSE Goto(c, "delete", cop[c], cold[c])
    /\ UNCHANGED <<storeVars, csent, cleft, script, emitted, mustSee,
                   managerVars, dispatchVars, watcherVars>>

\* the updateFunc arguments of UpdateWithKeyFn: 0 is the nil func, 1 maps
\* every object (the zero value included) to the next value, 2 to value 1
NilFn == 0
FnIds == {0, 1, 2}

\* updateFunc(obj)
updateFunc(f, obj) == IF f = 1 THEN (obj % 2) + 1 ELSE 1

\* UpdateWithKeyFn is entered.  mem.UpdateWithKeyFn goes for r.m.Lock();
\* file.UpdateWithKeyFn and gitrepo.UpdateWithKeyFn take no lock: they run
\* r.readFile(key) and, when updateFunc is nil, return
UpdateWithKeyFn(c, k, f) ==
    /\ CanCall(c, "UpdateWithKeyFn", k, f)
    /\ Begin(c)
    /\ IF impl = "file"
         THEN IF f = NilFn
                THEN Return(c, Call(c, "UpdateWithKeyFn", k, f), db[k], None,
                            NoEvent, db[k])
                ELSE Goto(c, "writeFile", Call(c, "UpdateWithKeyFn", k, f),
                          db[k])
         ELSE Goto(c, "fn", Call(c, "UpdateWithKeyFn", k, f), Nil)
    /\ UNCHANGED <<storeVars, csent, emitted, mustSee, managerVars,
                   dispatchVars, watcherVars>>

\* r.m.Lock() of mem.UpdateWithKeyFn
LockFn(c) ==
    /\ ~panicked
    /\ cpc[c] = "fn"
    /\ wlock = None
    /\ wlock' = c
    /\ cpc' = [cpc EXCEPT ![c] = "fnlocked"]
    /\ UNCHANGED <<impl, db, watching, cop, cold, csent, cleft, script, calls,
                   emitted, mustSee, managerVars, dispatchVars, watcherVars>>

\* an UpdateWithKeyFn that goes on to r.notifyWatcher as Apply does
updateFnNotify(c) ==
    /\ ~panicked
    /\ cpc[c] = "fnlocked"
    /\ wlock = c
    /\ Readers = {}
    /\ Listers = {}
    /\ LET o == cop[c]
           new == IF o.val = NilFn THEN db[o.key]
                                   ELSE updateFunc(o.val, db[o.key])
       IN /\ db' = [db EXCEPT ![o.key] = new]
          /\ wlock' = None
          /\ Goto(c, "notify", [o EXCEPT !.val = new], db[o.key])
    /\ UNCHANGED <<impl, watching, csent, cleft, script, emitted, mustSee,
                   managerVars, dispatchVars, watcherVars>>

\* the body of mem.UpdateWithKeyFn and r.m.Unlock()
updateFn(c) ==
    /\ ~panicked
    /\ cpc[c] = "fnlocked"
    /\ wlock = c
    /\ Readers = {}
    /\ Listers = {}
    /\ LET o == cop[c]
           new == IF o.val = NilFn THEN db[o.key]
                                   ELSE updateFunc(o.val, db[o.key])
       IN /\ db' = [db EXCEPT ![o.key] = new]
          /\ wlock' = None
          /\ Return(c, o, db[o.key], None, NoEvent, new)
    /\ UNCHANGED <<impl, watching, csent, cleft, script, emitted, mustSee,
                   managerVars, dispatchVars, watcherVars>>

\* file.UpdateWithKeyFn, gitrepo.UpdateWithKeyFn: obj = updateFunc(obj) and
\* r.update(key, obj), which is r.writeFile
writeFile(c) ==
    /\ ~panicked
    /\ cpc[c] = "writeFile"
    /\ LET o == cop[c]
           new == updateFunc(o.val, cold[c])
       IN /\ db' = [db EXCEPT ![o.key] = new]
          /\ Return(c, o, cold[c], None, NoEvent, new)
    /\ UNCHANGED <<impl, watching, wlock, csent, cleft, script, emitted,
                   mustSee, managerVars, dispatchVars, watcherVars>>

\* ----------------------------------------------------------- WatcherManager
\* r.watchers.del(w.key) and r.sem.Release(1) for every subscription of ws;
\* Release panics when more is released than is held
DelRelease(ws) ==
    /\ watchers' = watchers \ ws
    /\ sem' = sem - Cardinality(ws)
    /\ panicked' = (sem - Cardinality(ws) < 0)
    /\ relCount' = [w \in WatcherIds |->
                      IF w \in ws THEN relCount[w] + 1 ELSE relCount[w]]
    /\ size' = size

\* watcherManager.Start: the receive from watchCh and the r.watchers.list() of
\* the loop body, one delivery goroutine per listed subscription; the sender
\* returns from its send and from notifyWatcher
Start(l, c) ==
    /\ ~panicked
    /\ dpc[l] = "recv"
    /\ cpc[c] = "send"
    /\ LET ev == EventOf(cop[c], cold[c])
       IN /\ dev' = [dev EXCEPT ![l] = ev]
          /\ emitted' = Append(emitted, ev)
          /\ dtask' = [dtask EXCEPT ![l] = [w \in WatcherIds |->
                         IF w \in watchers THEN "isDone" ELSE "none"]]
          /\ dpc' = [dpc EXCEPT ![l] = "wait"]
          /\ IF AfterNotify(cop[c]) = "return"
               THEN /\ Return(c, cop[c], cold[c], "nil", ev, db[cop[c].key])
                    /\ csent' = csent
               ELSE /\ Goto(c, "delete", cop[c], cold[c])
                    /\ csent' = [csent EXCEPT ![c] = ev]
    /\ UNCHANGED <<storeVars, cleft, script, mustSee, managerVars, mctx,
                   rcancel, watcherVars>>

\* a delivery goroutine that goes on to the callback after the del and the
\* Release
isDoneGoesOn(l, w) ==
    /\ ~panicked
    /\ dtask[l][w] = "isDone"
    /\ dtask' = [dtask EXCEPT ![l][w] = "OnChange"]
    /\ IF cancelled[w] THEN DelRelease({w}) ELSE UNCHANGED managerVars
    /\ UNCHANGED <<storeVars, clientVars, emitted, mustSee, dpc, dev, mctx,
                   rcancel, watcherVars>>

\* delivery goroutine: w.isDone(), and with an error the del and the Release
isDone(l, w) ==
    /\ ~panicked
    /\ dtask[l][w] = "isDone"
    /\ IF cancelled[w]
         THEN /\ DelRelease({w})
              /\ dtask' = [dtask EXCEPT ![l][w] = "none"]
         ELSE /\ dtask' = [dtask EXCEPT ![l][w] = "OnChange"]
              /\ UNCHANGED managerVars
    /\ UNCHANGED <<storeVars, clientVars, emitted, mustSee, dpc, dev, mctx,
                   rcancel, watcherVars>>

\* a callback that buffers or forwards without looking at r.done
OnChangeIgnoresDone(l, w) ==
    /\ ~panicked
    /\ dtask[l][w] = "OnChange"
    /\ ~MLocked(w)
    /\ eventCallback[w] = "backlog" \/ Receives(w)
    /\ dtask' = [dtask EXCEPT ![l][w] = "none"]
    /\ IF eventCallback[w] = "backlog"
         THEN /\ backlog' = [backlog EXCEPT ![w] = Append(@, dev[l])]
              /\ received' = received
         ELSE /\ received' = [received EXCEPT ![w] =
                                Append(@, Got(dev[l], "stream"))]
              /\ backlog' = backlog
    /\ UNCHANGED <<storeVars, clientVars, emitted, mustSee, managerVars, dpc,
                   dev, mctx, rcancel, wpc, watchOnly, watchRet, sweep, chunk,
                   eventCallback, done, cancelled, werr, swept, consumer>>

\* delivery goroutine: w.callback.OnChange(event) under WatcherU.m, and with
\* !keepGoing the del and the Release
OnChange(l, w) ==
    /\ ~panicked
    /\ dtask[l][w] = "OnChange"
    /\ ~MLocked(w)
    /\ done[w] \/ eventCallback[w] = "backlog" \/ Receives(w)
    /\ dtask' = [dtask EXCEPT ![l][w] = "none"]
    /\ IF done[w]
         THEN /\ DelRelease({w})
              /\ UNCHANGED <<backlog, received>>
         ELSE /\ UNCHANGED managerVars
              /\ IF eventCallback[w] = "backlog"
                   THEN /\ backlog' = [backlog EXCEPT ![w] =
                                         Append(@, dev[l])]
                        /\ received' = received
                   ELSE /\ received' = [received EXCEPT ![w] =
                                          Append(@, Got(dev[l], "stream"))]
                        /\ backlog' = backlog
    /\ UNCHANGED <<storeVars, clientVars, emitted, mustSee, dpc, dev, mctx,
                   rcancel, wpc, watchOnly, watchRet, sweep, chunk,
                   eventCallback,
                   done, cancelled, werr, swept>>
    /\ UNCHANGED consumer

\* delivery goroutine: the forwarding callback, called under WatcherU.m with
\* the subscription not done, blocks in sendWatchEvent while the consumer
\* does not receive
OnChangeBlocks(l, w) ==
    /\ ~panicked
    /\ dtask[l][w] = "OnChange"
    /\ ~MLocked(w)
    /\ ~done[w] /\ eventCallback[w] = "stream" /\ ~Receives(w)
    /\ dtask' = [dtask EXCEPT ![l][w] = "sending"]
    /\ UNCHANGED <<storeVars, clientVars, emitted, mustSee, managerVars, dpc,
                   dev, mctx, rcancel, watcherVars>>

\* delivery goroutine: the consumer takes the event the forwarding callback
\* is sending; the callback returns true
OnChangeSent(l, w) ==
    /\ ~panicked
    /\ dtask[l][w] = "sending"
    /\ Receives(w)
    /\ dtask' = [dtask EXCEPT ![l][w] = "none"]
    /\ received' = [received EXCEPT ![w] = Append(@, Got(dev[l], "stream"))]
    /\ UNCHANGED <<storeVars, clientVars, emitted, mustSee, managerVars, dpc,
                   dev, mctx, rcancel, wpc, watchOnly, watchRet, sweep,
                   backlog, chunk, eventCallback, done, cancelled, werr,
                   swept, consumer>>

\* delivery goroutine: w.callback.OnChange(event) panics.  The goroutine has
\* a deferred wg.Done() and no recover: the panic ends the process.
OnChangePanics(l, w) ==
    /\ ~panicked
    /\ dtask[l][w] = "OnChange"
    /\ dtask' = [dtask EXCEPT ![l][w] = "panic"]
    /\ panicked' = TRUE
    /\ UNCHANGED <<storeVars, clientVars, emitted, mustSee, watchers, sem,
                   size, relCount, dpc, dev, mctx, rcancel, watcherVars>>

\* watcherManager.Start: wg.Wait() returns, back to the select
Wait(l) ==
    /\ ~panicked
    /\ dpc[l] = "wait"
    /\ \A w \in WatcherIds : dtask[l][w] = "none"
    /\ dpc' = [dpc EXCEPT ![l] = "recv"]
    /\ dev' = [dev EXCEPT ![l] = NoEvent]
    /\ UNCHANGED <<storeVars, clientVars, emitted, mustSee, managerVars, dtask,
                   mctx, rcancel, watcherVars>>

\* ---------------------------------------------------------------- lifecycle
\* mem.Start under r.m.Lock(): r.watching = true and the go statement, which
\* starts a dispatch loop goroutine whatever loops are alive already
memStart ==
    /\ ~panicked
    /\ wlock = None
    /\ Readers = {}
    /\ Listers = {}
    /\ \E l \in Loops :
          /\ dpc[l] \in {"off", "exited"}
          /\ \A x \in Loops : x < l => dpc[x] \notin {"off", "exited"}
          /\ dpc' = [dpc EXCEPT ![l] = "spawned"]
          /\ mctx' = [mctx EXCEPT ![l] = None]
    /\ watching' = TRUE
    /\ UNCHANGED <<impl, db, wlock, clientVars, emitted, mustSee, managerVars,
                   dtask, dev, rcancel, watcherVars>>

\* watcherManager.Start, first statement: ctx, r.cancel = WithCancel(ctx);
\* the context made of a cancelled context is cancelled
WithCancel(l) ==
    /\ ~panicked
    /\ dpc[l] = "spawned"
    /\ dpc' = [dpc EXCEPT ![l] = "recv"]
    /\ mctx' = [mctx EXCEPT ![l] = IF @ = "cancelled" THEN @ ELSE "live"]
    /\ rcancel' = l
    /\ UNCHANGED <<storeVars, clientVars, emitted, mustSee, managerVars,
                   dtask, dev, watcherVars>>

\* mem.Stop under r.m.Lock(): r.watching = false and watcherManager.Stop,
\* which calls r.cancel unless it is nil
memStop ==
    /\ ~panicked
    /\ wlock = None
    /\ Readers = {}
    /\ Listers = {}
    /\ watching' = FALSE
    /\ mctx' = [l \in Loops |->
                 IF l = rcancel /\ mctx[l] = "live" THEN "cancelled"
                                                   ELSE mctx[l]]
    /\ UNCHANGED <<impl, db, wlock, clientVars, emitted, mustSee, managerVars,
                   dpc, dtask, dev, rcancel, watcherVars>>

\* the context given to the mem.Start call that started loop l is cancelled
\* by its owner: the context the loop makes of it is cancelled with it
cancelStart(l) ==
    /\ ~panicked
    /\ dpc[l] \in {"spawned", "recv", "wait"}
    /\ mctx[l] # "cancelled"
    /\ mctx' = [mctx EXCEPT ![l] = "cancelled"]
    /\ UNCHANGED <<storeVars, clientVars, emitted, mustSee, managerVars,
                   dpc, dtask, dev, rcancel, watcherVars>>

\* watcherManager.Start: the select takes <-ctx.Done() and the loop returns
ctxDone(l) ==
    /\ ~panicked
    /\ dpc[l] = "recv"
    /\ mctx[l] = "cancelled"
    /\ dpc' = [dpc EXCEPT ![l] = "exited"]
    /\ UNCHANGED <<storeVars, clientVars, emitted, mustSee, managerVars,
                   dtask, dev, mctx, rcancel, watcherVars>>

\* ------------------------------------------------------------ subscription
ErrorEvent == WatchEvent("Error", None, Nil, <<None, 0>>)

\* the orders in which a map iteration can visit the keys of S
Orders(S) ==
    {f \in [1..Cardinality(S) -> S] :
        \A i, j \in DOMAIN f : f[i] = f[j] => i = j}

\* a Watch whose subscription forwards to the consumer from the start
WatchForwarding(w, wo) ==
    /\ ~panicked
    /\ wpc[w] = "idle"
    /\ \A x \in WatcherIds : x < w => wpc[x] # "idle"
    /\ watchOnly' = [watchOnly EXCEPT ![w] = wo]
    /\ watchRet' = [watchRet EXCEPT ![w] = "nil"]
    /\ eventCallback' = [eventCallback EXCEPT ![w] = "stream"]
    /\ sweep' = [sweep EXCEPT ![w] = watchers]
    /\ wpc' = [wpc EXCEPT ![w] = "AddSweep"]
    /\ UNCHANGED <<storeVars, clientVars, emitted, mustSee, managerVars,
                   dispatchVars, backlog, chunk, done, cancelled, werr,
                   received, swept>>
    /\ UNCHANGED consumer

\* a Watch that runs ListAndWatch itself and has not returned
WatchInline(w, wo) ==
    /\ ~panicked
    /\ wpc[w] = "idle"
    /\ \A x \in WatcherIds : x < w => wpc[x] # "idle"
    /\ watchOnly' = [watchOnly EXCEPT ![w] = wo]
    /\ eventCallback' = [eventCallback EXCEPT ![w] = "backlog"]
    /\ sweep' = [sweep EXCEPT ![w] = watchers]
    /\ wpc' = [wpc EXCEPT ![w] = "AddSweep"]
    /\ UNCHANGED <<storeVars, clientVars, emitted, mustSee, managerVars,
                   dispatchVars, watchRet, backlog, chunk, done, cancelled,
                   werr, received, swept>>
    /\ UNCHANGED consumer

\* mem.Watch: a new subscription with its own cancellable context, handed
\* back with a nil error, and the start of its goroutine: innerListAndWatch
\* installs the buffering callback, Add is entered and takes its
\* r.watchers.list().  Subscriptions are numbered in the order of their Watch
\* calls.
Watch(w, wo) ==
    /\ ~panicked
    /\ wpc[w] = "idle"
    /\ \A x \in WatcherIds : x < w => wpc[x] # "idle"
    /\ watchOnly' = [watchOnly EXCEPT ![w] = wo]
    /\ watchRet' = [watchRet EXCEPT ![w] = "nil"]
    /\ eventCallback' = [eventCallback EXCEPT ![w] = "backlog"]
    /\ sweep' = [sweep EXCEPT ![w] = watchers]
    /\ wpc' = [wpc EXCEPT ![w] = "AddSweep"]
    /\ UNCHANGED <<storeVars, clientVars, emitted, mustSee, managerVars,
                   dispatchVars, backlog, chunk, done, cancelled, werr,
                   received, swept>>
    /\ UNCHANGED consumer

\* mem.Watch called by client goroutine c, which receives from the
\* ResultChan() of the subscription itself between its Store calls
WatchReacting(w, c) ==
    /\ ~panicked
    /\ wpc[w] = "idle"
    /\ \A x \in WatcherIds : x < w => wpc[x] # "idle"
    /\ cpc[c] = "idle"
    /\ watchRet' = [watchRet EXCEPT ![w] = "nil"]
    /\ eventCallback' = [eventCallback EXCEPT ![w] = "backlog"]
    /\ sweep' = [sweep EXCEPT ![w] = watchers]
    /\ wpc' = [wpc EXCEPT ![w] = "AddSweep"]
    /\ consumer' = [consumer EXCEPT ![w] = c]
    /\ UNCHANGED <<storeVars, clientVars, emitted, mustSee, managerVars,
                   dispatchVars, watchOnly, backlog, chunk, done, cancelled,
                   werr, received, swept>>

\* a Stop that removes the subscription from the registry itself
StopEvicts(w) ==
    /\ ~panicked
    /\ watchRet[w] # None
    /\ ~cancelled[w]
    /\ cancelled' = [cancelled EXCEPT ![w] = TRUE]
    /\ IF w \in watchers THEN DelRelease({w}) ELSE UNCHANGED managerVars
    /\ UNCHANGED <<storeVars, clientVars, emitted, mustSee, dispatchVars, wpc,
                   watchOnly, watchRet, sweep, backlog, chunk, eventCallback,
                   done, werr, received, swept>>
    /\ UNCHANGED consumer

\* WatcherU.Stop called by the holder of the subscription: r.Cancel()
Stop(w) ==
    /\ ~panicked
    /\ watchRet[w] # None
    /\ ~cancelled[w]
    /\ cancelled' = [cancelled EXCEPT ![w] = TRUE]
    /\ UNCHANGED <<storeVars, clientVars, emitted, mustSee, managerVars,
                   dispatchVars, wpc, watchOnly, watchRet, sweep, backlog,
                   chunk, eventCallback, done, werr, received, swept>>
    /\ UNCHANGED consumer

\* WatcherU.Stop called by the holder of the subscription, whose consumer
\* stops receiving from ResultChannel
StopLeaves(w) ==
    /\ ~panicked
    /\ watchRet[w] # None
    /\ ~cancelled[w]
    /\ cancelled' = [cancelled EXCEPT ![w] = TRUE]
    /\ consumer' = [consumer EXCEPT ![w] = "left"]
    /\ UNCHANGED <<storeVars, clientVars, emitted, mustSee, managerVars,
                   dispatchVars, wpc, watchOnly, watchRet, sweep, backlog,
                   chunk, eventCallback, done, werr, received, swept>>

\* watcherManager.Add: the loop that cleans the done watchers of its list
AddSweep(w) ==
    /\ ~panicked
    /\ wpc[w] = "AddSweep"
    /\ DelRelease({x \in sweep[w] : cancelled[x]})
    /\ sweep' = [sweep EXCEPT ![w] = {}]
    /\ swept' = [swept EXCEPT ![w] = {x \in sweep[w] : cancelled[x]}]
    /\ wpc' = [wpc EXCEPT ![w] = "Add"]
    /\ UNCHANGED <<storeVars, clientVars, emitted, mustSee, dispatchVars,
                   watchOnly, watchRet, backlog, chunk, eventCallback, done,
                   cancelled, werr, received>>
    /\ UNCHANGED consumer

\* ListOptions.ApplyToList: what the option with Watch field opt makes of the
\* Watch field lo of the options it is applied to.  Only Commit is copied.
ApplyToList(opt, lo) == lo

\* innerListAndWatch: o := &store.ListOptions{}; o.ApplyOptions(opts); o.Watch
ApplyOptions(opt) == ApplyToList(opt, FALSE)

\* an Add that takes its slot and leaves the registration to later
AddUnregistered(w) ==
    /\ ~panicked
    /\ wpc[w] = "Add"
    /\ IF size - sem >= 1
         THEN /\ sem' = sem + 1
              /\ wpc' = [wpc EXCEPT ![w] = "List"]
              /\ UNCHANGED <<werr, watchers>>
         ELSE /\ wpc' = [wpc EXCEPT ![w] = "err"]
              /\ werr' = [werr EXCEPT ![w] = "max number of watchers reached"]
              /\ UNCHANGED <<sem, watchers>>
    /\ UNCHANGED <<storeVars, clientVars, emitted, mustSee, size, panicked,
                   relCount, dispatchVars, watchOnly, watchRet, sweep, backlog,
                   chunk, eventCallback, done, cancelled, received, swept>>
    /\ UNCHANGED consumer

\* watcherManager.Add: r.sem.TryAcquire(1), and the error or r.watchers.add;
\* on success innerListAndWatch goes on with the list unless o.Watch
Add(w) ==
    /\ ~panicked
    /\ wpc[w] = "Add"
    /\ IF size - sem >= 1
         THEN /\ sem' = sem + 1
              /\ watchers' = watchers \cup {w}
              /\ wpc' = [wpc EXCEPT ![w] =
                           IF ApplyOptions(watchOnly[w])
                             THEN "swap" ELSE "List"]
              /\ werr' = werr
         ELSE /\ wpc' = [wpc EXCEPT ![w] = "err"]
              /\ werr' = [werr EXCEPT ![w] = "max number of watchers reached"]
              /\ UNCHANGED <<sem, watchers>>
    /\ UNCHANGED <<storeVars, clientVars, emitted, mustSee, size, panicked,
                   relCount, dispatchVars, watchOnly, watchRet, sweep, backlog,
                   chunk, eventCallback, done, cancelled, received, swept>>
    /\ UNCHANGED consumer

\* innerListAndWatch: s.List takes mem.m.RLock() and blocks in the send of
\* a stored object while the consumer does not receive
ListBlocks(w) ==
    /\ ~panicked
    /\ wpc[w] = "List"
    /\ RLockFree
    /\ ~Receives(w)
    /\ \E k \in DOMAIN db : db[k] # Nil
    /\ wpc' = [wpc EXCEPT ![w] = "listing"]
    /\ UNCHANGED <<storeVars, clientVars, emitted, mustSee, managerVars,
                   dispatchVars, watchOnly, watchRet, sweep, backlog, chunk,
                   eventCallback, done, cancelled, werr, received, swept,
                   consumer>>

\* innerListAndWatch: s.List under mem.m.RLock(), an Added event sent to the
\* consumer for every stored object
List(w) ==
    /\ ~panicked
    /\ \/ wpc[w] = "List" /\ RLockFree
          /\ (Receives(w) \/ \A k \in DOMAIN db : db[k] = Nil)
       \/ wpc[w] = "listing" /\ Receives(w)
    /\ \E f \in Orders({k \in DOMAIN db : db[k] # Nil}) :
         received' = [received EXCEPT ![w] = @ \o
            [i \in DOMAIN f |->
               Got(WatchEvent("Added", f[i], db[f[i]], <<None, 0>>), "list")]]
    /\ mustSee' = [mustSee EXCEPT ![w] = {}]
    /\ wpc' = [wpc EXCEPT ![w] = "swap"]
    /\ UNCHANGED <<storeVars, clientVars, emitted, managerVars, dispatchVars,
                   watchOnly, watchRet, sweep, backlog, chunk, eventCallback,
                   done, cancelled, werr, swept>>
    /\ UNCHANGED consumer

\* a flush loop that does not break on an empty chunk
swapForever(w) ==
    /\ ~panicked
    /\ wpc[w] = "swap"
    /\ ~MLocked(w)
    /\ chunk' = [chunk EXCEPT ![w] = backlog[w]]
    /\ backlog' = [backlog EXCEPT ![w] = <<>>]
    /\ wpc' = [wpc EXCEPT ![w] = "flush"]
    /\ UNCHANGED <<storeVars, clientVars, emitted, mustSee, managerVars,
                   dispatchVars, watchOnly, watchRet, sweep, eventCallback,
                   done, cancelled, werr, received, swept>>
    /\ UNCHANGED consumer

\* innerListAndWatch, flush loop: chunk := backlog; backlog = nil under m
swap(w) ==
    /\ ~panicked
    /\ wpc[w] = "swap"
    /\ ~MLocked(w)
    /\ chunk' = [chunk EXCEPT ![w] = backlog[w]]
    /\ backlog' = [backlog EXCEPT ![w] = <<>>]
    /\ wpc' = [wpc EXCEPT ![w] =
                 IF backlog[w] = <<>> THEN "stream" ELSE "flush"]
    /\ UNCHANGED <<storeVars, clientVars, emitted, mustSee, managerVars,
                   dispatchVars, watchOnly, watchRet, sweep, eventCallback,
                   done, cancelled, werr, received, swept>>
    /\ UNCHANGED consumer

\* the events of evs sent from the last to the first
SentBackwards(evs, via) ==
    [i \in DOMAIN evs |-> Got(evs[Len(evs) + 1 - i], via)]

\* the events of evs as the consumer receives them
Sent(evs, via) == [i \in DOMAIN evs |-> Got(evs[i], via)]

\* innerListAndWatch, flush loop: the events of the chunk are sent
flush(w) ==
    /\ ~panicked
    /\ wpc[w] = "flush"
    /\ Receives(w)
    /\ received' = [received EXCEPT ![w] = @ \o Sent(chunk[w], "backlog")]
    /\ chunk' = [chunk EXCEPT ![w] = <<>>]
    /\ wpc' = [wpc EXCEPT ![w] = "swap"]
    /\ UNCHANGED <<storeVars, clientVars, emitted, mustSee, managerVars,
                   dispatchVars, watchOnly, watchRet, sweep, backlog,
                   eventCallback, done, cancelled, werr, swept>>
    /\ UNCHANGED consumer

\* innerListAndWatch takes WatcherU.m and blocks in the send of what
\* squeezed in while the consumer does not receive
streamBlocks(w) ==
    /\ ~panicked
    /\ wpc[w] = "stream"
    /\ ~MLocked(w)
    /\ backlog[w] # <<>>
    /\ ~Receives(w)
    /\ wpc' = [wpc EXCEPT ![w] = "squeezing"]
    /\ UNCHANGED <<storeVars, clientVars, emitted, mustSee, managerVars,
                   dispatchVars, watchOnly, watchRet, sweep, backlog, chunk,
                   eventCallback, done, cancelled, werr, received, swept,
                   consumer>>

\* the forwarding callback installed without sending what squeezed in
streamAtOnce(w) ==
    /\ ~panicked
    /\ \/ wpc[w] = "stream" /\ ~MLocked(w)
          /\ (Receives(w) \/ backlog[w] = <<>>)
       \/ wpc[w] = "squeezing" /\ Receives(w)
    /\ eventCallback' = [eventCallback EXCEPT ![w] = "stream"]
    /\ wpc' = [wpc EXCEPT ![w] = "select"]
    /\ UNCHANGED <<storeVars, clientVars, emitted, mustSee, managerVars,
                   dispatchVars, watchOnly, watchRet, sweep, backlog, chunk,
                   done, cancelled, werr, received, swept>>
    /\ UNCHANGED consumer

\* innerListAndWatch under m: what squeezed into the backlog is sent and the
\* forwarding callback is installed
stream(w) ==
    /\ ~panicked
    /\ \/ wpc[w] = "stream" /\ ~MLocked(w)
          /\ (Receives(w) \/ backlog[w] = <<>>)
       \/ wpc[w] = "squeezing" /\ Receives(w)
    /\ received' = [received EXCEPT ![w] = @ \o Sent(backlog[w], "squeezed")]
    /\ eventCallback' = [eventCallback EXCEPT ![w] = "stream"]
    /\ wpc' = [wpc EXCEPT ![w] = "select"]
    /\ UNCHANGED <<storeVars, clientVars, emitted, mustSee, managerVars,
                   dispatchVars, watchOnly, watchRet, sweep, backlog, chunk,
                   done, cancelled, werr, swept>>
    /\ UNCHANGED consumer

\* the select takes <-ctx.Done() and returns ctx.Err() without setDone
returnUnmarked(w) ==
    /\ ~panicked
    /\ wpc[w] = "select"
    /\ cancelled[w]
    /\ ~MLocked(w)
    /\ werr' = [werr EXCEPT ![w] = "context canceled"]
    /\ wpc' = [wpc EXCEPT ![w] = "err"]
    /\ UNCHANGED <<storeVars, clientVars, emitted, mustSee, managerVars,
                   dispatchVars, watchOnly, watchRet, sweep, backlog, chunk,
                   eventCallback, done, cancelled, received, swept>>
    /\ UNCHANGED consumer

\* innerListAndWatch: the select takes <-ctx.Done(); setDone, return ctx.Err()
setDone(w) ==
    /\ ~panicked
    /\ wpc[w] = "select"
    /\ cancelled[w]
    /\ ~MLocked(w)
    /\ done' = [done EXCEPT ![w] = TRUE]
    /\ werr' = [werr EXCEPT ![w] = "context canceled"]
    /\ wpc' = [wpc EXCEPT ![w] = "err"]
    /\ UNCHANGED <<storeVars, clientVars, emitted, mustSee, managerVars,
                   dispatchVars, watchOnly, watchRet, sweep, backlog, chunk,
                   eventCallback, cancelled, received, swept>>
    /\ UNCHANGED consumer

\* ListAndWatch stopping on an error of innerListAndWatch without telling the
\* consumer
dropError(w) ==
    /\ ~panicked
    /\ wpc[w] = "err"
    /\ cancelled' = [cancelled EXCEPT ![w] = TRUE]
    /\ wpc' = [wpc EXCEPT ![w] = "stopped"]
    /\ UNCHANGED <<storeVars, clientVars, emitted, mustSee, managerVars,
                   dispatchVars, watchOnly, watchRet, sweep, backlog, chunk,
                   eventCallback, done, werr, received, swept>>
    /\ UNCHANGED consumer

\* ListAndWatch after innerListAndWatch returned its error: the Error event
\* is sent to the consumer, then r.Stop()
sendError(w) ==
    /\ ~panicked
    /\ wpc[w] = "err"
    /\ Receives(w)
    /\ received' = [received EXCEPT ![w] = Append(@, Got(ErrorEvent, "error"))]
    /\ cancelled' = [cancelled EXCEPT ![w] = TRUE]
    /\ wpc' = [wpc EXCEPT ![w] = "stopped"]
    /\ UNCHANGED <<storeVars, clientVars, emitted, mustSee, managerVars,
                   dispatchVars, watchOnly, watchRet, sweep, backlog, chunk,
                   eventCallback, done, werr, swept>>
    /\ UNCHANGED consumer

\* ---------------------------------------------------------- specifications
\* NewStore has returned, nothing has been called.  dbs: what is stored; n:
\* the calls of each client; sc: the script of each client; ws: the
\* subscriptions that can be asked for; sz: the admission ceiling given to
\* watchermanager.New
NewStore(impls, dbs, n, sc, ws, sz) ==
    /\ impl \in impls
    /\ db \in dbs
    /\ wlock = None
    /\ cpc = [c \in Clients |-> "idle"]
    /\ cop = [c \in Clients |-> NoOp]
    /\ cold = [c \in Clients |-> Nil]
    /\ csent = [c \in Clients |-> NoEvent]
    /\ cleft = n
    /\ script = sc
    /\ calls = [c \in Clients |-> <<>>]
    /\ emitted = <<>>
    /\ mustSee = [w \in WatcherIds |-> {}]
    /\ watchers = {}
    /\ sem = 0
    /\ size = sz
    /\ dtask = [l \in Loops |-> [w \in WatcherIds |-> "none"]]
    /\ dev = [l \in Loops |-> NoEvent]
    /\ panicked = FALSE
    /\ relCount = [w \in WatcherIds |-> 0]
    /\ wpc = [w \in WatcherIds |-> IF w \in ws THEN "idle" ELSE "off"]
    /\ watchOnly = [w \in WatcherIds |-> FALSE]
    /\ watchRet = [w \in WatcherIds |-> None]
    /\ sweep = [w \in WatcherIds |-> {}]
    /\ swept = [w \in WatcherIds |-> {}]
    /\ backlog = [w \in WatcherIds |-> <<>>]
    /\ chunk = [w \in WatcherIds |-> <<>>]
    /\ eventCallback = [w \in WatcherIds |-> "none"]
    /\ done = [w \in WatcherIds |-> FALSE]
    /\ cancelled = [w \in WatcherIds |-> FALSE]
    /\ werr = [w \in WatcherIds |-> None]
    /\ received = [w \in WatcherIds |-> <<>>]
    /\ consumer = [w \in WatcherIds |-> None]

\* NewStore and mem.Start have returned, the dispatch loop is at its select
InitWith(impls, dbs, n, sc, ws, sz) ==
    /\ watching = TRUE
    /\ dpc = [l \in Loops |-> IF l = 1 THEN "recv" ELSE "off"]
    /\ mctx = [l \in Loops |-> IF l = 1 THEN "live" ELSE None]
    /\ rcancel = 1
    /\ NewStore(impls, dbs, n, sc, ws, sz)

\* NewStore has returned, mem.Start has not been called
InitNew(impls, dbs, n, sc, ws, sz) ==
    /\ watching = FALSE
    /\ dpc = [l \in Loops |-> "off"]
    /\ mctx = [l \in Loops |-> None]
    /\ rcancel = NoLoop
    /\ NewStore(impls, dbs, n, sc, ws, sz)

Impls == {"memory", "memoryu"}
Stored == [Keys -> Vals \cup {Nil}]
NoScript == [c \in Clients |-> <<>>]

\* the steps of a Store call
StoreStep ==
    \/ \E c \in Clients, k \in Keys, v \in Vals : Create(c, k, v)
    \/ \E c \in Clients, k \in Keys, v \in Vals : Update(c, k, v)
    \/ \E c \in Clients, k \in Keys, v \in Vals : Apply(c, k, v)
    \/ \E c \in Clients, k \in Keys : Delete(c, k)
    \/ \E c \in Clients : Lock(c)
    \/ \E c \in Clients : update(c)
    \/ \E c \in Clients : notifyWatcher(c)

\* the steps of the dispatch loop and its delivery goroutines
DispatchStep ==
    \/ \E l \in Loops, c \in Clients : Start(l, c)
    \/ \E l \in Loops, w \in WatcherIds : isDone(l, w)
    \/ \E l \in Loops, w \in WatcherIds : OnChange(l, w)
    \/ \E l \in Loops : Wait(l)

\* the steps of a subscription that is not cancelled
WatchStep ==
    \/ \E w \in WatcherIds, wo \in BOOLEAN : Watch(w, wo)
    \/ \E w \in WatcherIds : AddSweep(w)
    \/ \E w \in WatcherIds : Add(w)
    \/ \E w \in WatcherIds : List(w)
    \/ \E w \in WatcherIds : swap(w)
    \/ \E w \in WatcherIds : flush(w)
    \/ \E w \in WatcherIds : stream(w)

\* the steps of mem.Start and mem.Stop
LifeStep ==
    \/ memStart
    \/ \E l \in Loops : WithCancel(l)
    \/ memStop
    \/ \E l \in Loops : ctxDone(l)

\* the steps of a cancellation
CancelStep ==
    \/ \E w \in WatcherIds : Stop(w)
    \/ \E w \in WatcherIds : setDone(w)
    \/ \E w \in WatcherIds : sendError(w)

\* Spec: two clients calling the store concurrently with a subscription that
\* is never cancelled
Init ==
    InitWith(Impls, Stored, [c \in Clients |-> MaxOps], NoScript,
             {1}, Ceiling)

Next == StoreStep \/ DispatchStep \/ WatchStep

Spec == Init /\ [][Next]_vars

\* SpecAdm: admission and eviction.  Three subscriptions are asked for and
\* stopped at any time under a ceiling of one, while one client makes the
\* store emit events.
AdmScript == [c \in Clients |->
                IF c = "c1" THEN [i \in 1..AdmOps |-> <<"Apply", "a", 1>>]
                ELSE <<>>]

InitAdm ==
    InitWith({"memory"}, {[k \in Keys |-> Nil]},
             [c \in Clients |-> Len(AdmScript[c])], AdmScript, WatcherIds,
             AdmCeiling)

NextAdm ==
    \/ \E c \in Clients, k \in Keys, v \in Vals : Apply(c, k, v)
    \/ \E c \in Clients : Lock(c)
    \/ \E c \in Clients : update(c)
    \/ \E c \in Clients : notifyWatcher(c)
    \/ DispatchStep
    \/ \E w \in WatcherIds : Watch(w, FALSE)
    \/ \E w \in WatcherIds : AddSweep(w)
    \/ \E w \in WatcherIds : Add(w)
    \/ \E w \in WatcherIds : List(w)
    \/ \E w \in WatcherIds : swap(w)
    \/ \E w \in WatcherIds : flush(w)
    \/ \E w \in WatcherIds : stream(w)
    \/ CancelStep

SpecAdm == InitAdm /\ [][NextAdm]_vars

\* SpecOrd: one client applies OrdOps values to a key one after the other
\* while two subscriptions start at any time under a ceiling of two and are
\* never cancelled.
OrdScript == [c \in Clients |->
                IF c = "c1"
                  THEN [i \in 1..OrdOps |-> <<"Apply", "a", 1 + (i % 2)>>]
                  ELSE <<>>]

InitOrd ==
    InitWith({"memory"}, {[k \in Keys |-> Nil]},
             [c \in Clients |-> Len(OrdScript[c])], OrdScript, {1, 2},
             Ceiling)

NextOrd ==
    \/ \E c \in Clients, k \in Keys, v \in Vals : Apply(c, k, v)
    \/ \E c \in Clients : Lock(c)
    \/ \E c \in Clients : update(c)
    \/ \E c \in Clients : notifyWatcher(c)
    \/ DispatchStep
    \/ \E w \in WatcherIds : Watch(w, FALSE)
    \/ \E w \in WatcherIds : AddSweep(w)
    \/ \E w \in WatcherIds : Add(w)
    \/ \E w \in WatcherIds : List(w)
    \/ \E w \in WatcherIds : swap(w)
    \/ \E w \in WatcherIds : flush(w)
    \/ \E w \in WatcherIds : stream(w)

SpecOrd == InitOrd /\ [][NextOrd]_vars

\* SpecScn: one subscription, with or without the watch-only option, is asked
\* for; after
\* mem.Watch has returned one client makes the calls Create(a,1),
\* Update(a,1), Update(a,2), Delete(a) one after the other on the empty store.
ScnScript == [c \in Clients |->
                IF c = "c1"
                  THEN << <<"Create", "a", 1>>, <<"Update", "a", 1>>,
                          <<"Update", "a", 2>>, <<"Delete", "a", Nil>> >>
                  ELSE <<>>]

InitScn ==
    InitWith(Impls, {[k \in Keys |-> Nil]},
             [c \in Clients |-> Len(ScnScript[c])], ScnScript, {1}, Ceiling)

NextScn ==
    \/ \E c \in Clients, k \in Keys, v \in Vals :
          watchRet[1] # None /\ Create(c, k, v)
    \/ \E c \in Clients, k \in Keys, v \in Vals : Update(c, k, v)
    \/ \E c \in Clients, k \in Keys : Delete(c, k)
    \/ \E c \in Clients : Lock(c)
    \/ \E c \in Clients : update(c)
    \/ \E c \in Clients : notifyWatcher(c)
    \/ DispatchStep
    \/ WatchStep

SpecScn == InitScn /\ [][NextScn]_vars

\* SpecSeq: one client makes SeqOps calls of its choice one after the other on
\* a started store that holds anything; nobody subscribes.
InitSeq ==
    InitWith(Impls, Stored,
             [c \in Clients |-> IF c = "c1" THEN SeqOps ELSE 0], NoScript,
             {}, Ceiling)

NextSeq ==
    \/ StoreStep
    \/ \E l \in Loops, c \in Clients : Start(l, c)
    \/ \E l \in Loops : Wait(l)

SpecSeq == InitSeq /\ [][NextSeq]_vars

\* the steps the goroutines of a subscription take by themselves
ProtocolStep ==
    \/ \E w \in WatcherIds : AddSweep(w)
    \/ \E w \in WatcherIds : Add(w)
    \/ \E w \in WatcherIds : List(w)
    \/ \E w \in WatcherIds : swap(w)
    \/ \E w \in WatcherIds : flush(w)
    \/ \E w \in WatcherIds : stream(w)
    \/ \E w \in WatcherIds : setDone(w)
    \/ \E w \in WatcherIds : sendError(w)

\* the steps a Store call takes once it is entered
CallStep ==
    \/ \E c \in Clients : Lock(c)
    \/ \E c \in Clients : update(c)
    \/ \E c \in Clients : notifyWatcher(c)

\* the lifecycle steps of a store that is started only while no dispatch
\* loop of an earlier Start is alive
OneLoopStep ==
    \/ (\A l \in Loops : dpc[l] \in {"off", "exited"}) /\ memStart
    \/ \E l \in Loops : WithCancel(l)
    \/ memStop
    \/ \E l \in Loops : ctxDone(l)

\* SpecLife: a new store is started, while no dispatch loop is alive, and
\* stopped at any time while one client makes LifeOps calls of its choice one
\* after the other and one subscription is asked for at any time.
InitLife ==
    InitNew(Impls, {[k \in Keys |-> Nil]},
            [c \in Clients |-> IF c = "c1" THEN LifeOps ELSE 0], NoScript,
            {1}, Ceiling)

NextLife ==
    \/ StoreStep
    \/ DispatchStep
    \/ OneLoopStep
    \/ \E w \in WatcherIds : Watch(w, FALSE)
    \/ \E w \in WatcherIds : AddSweep(w)
    \/ \E w \in WatcherIds : Add(w)
    \/ \E w \in WatcherIds : List(w)
    \/ \E w \in WatcherIds : swap(w)
    \/ \E w \in WatcherIds : flush(w)
    \/ \E w \in WatcherIds : stream(w)

SpecLife == InitLife /\ [][NextLife]_vars

\* SpecLife with the goroutines of the program scheduled fairly; nobody is
\* obliged to call the store
SpecLifeFair ==
    /\ SpecLife
    /\ WF_vars(CallStep)
    /\ WF_vars(DispatchStep)
    /\ \A l \in Loops : WF_vars(WithCancel(l) \/ ctxDone(l))
    /\ WF_vars(ProtocolStep)

\* SpecLoops: a new store of package memory is started and stopped at any
\* time and in any order while one client applies LoopOps values to a key one
\* after the other and one subscription is asked for at any time.
LoopScript == [c \in Clients |->
                 IF c = "c1"
                   THEN [i \in 1..LoopOps |-> <<"Apply", "a", 1 + (i % 2)>>]
                   ELSE <<>>]

InitLoops ==
    InitNew({"memory"}, {[k \in Keys |-> Nil]},
            [c \in Clients |-> Len(LoopScript[c])], LoopScript, {1}, Ceiling)

NextLoops ==
    \/ \E c \in Clients, k \in Keys, v \in Vals : Apply(c, k, v)
    \/ CallStep
    \/ DispatchStep
    \/ LifeStep
    \/ \E w \in WatcherIds : Watch(w, FALSE)
    \/ \E w \in WatcherIds : AddSweep(w)
    \/ \E w \in WatcherIds : Add(w)
    \/ \E w \in WatcherIds : List(w)
    \/ \E w \in WatcherIds : swap(w)
    \/ \E w \in WatcherIds : flush(w)
    \/ \E w \in WatcherIds : stream(w)

SpecLoops == InitLoops /\ [][NextLoops]_vars

\* SpecLoops with the goroutines of the program scheduled fairly; nobody is
\* obliged to call the store
SpecLoopsFair ==
    /\ SpecLoops
    /\ WF_vars(CallStep)
    /\ WF_vars(DispatchStep)
    /\ \A l \in Loops : WF_vars(WithCancel(l) \/ ctxDone(l))
    /\ WF_vars(ProtocolStep)

\* SpecCancel: one client applies CancelOps values to a key one after the
\* other while one subscription is asked for and stopped at any time.
CancelScript == [c \in Clients |->
                   IF c = "c1"
                     THEN [i \in 1..CancelOps |-> <<"Apply", "a", 1 + (i % 2)>>]
                     ELSE <<>>]

InitCancel ==
    InitWith(Impls, {[k \in Keys |-> Nil]},
             [c \in Clients |-> Len(CancelScript[c])], CancelScript, {1},
             Ceiling)

NextCancel ==
    \/ \E c \in Clients, k \in Keys, v \in Vals : Apply(c, k, v)
    \/ CallStep
    \/ DispatchStep
    \/ \E w \in WatcherIds : Watch(w, FALSE)
    \/ \E w \in WatcherIds : Stop(w)
    \/ ProtocolStep

SpecCancel == InitCancel /\ [][NextCancel]_vars

\* SpecCancel with the goroutines of the program scheduled fairly; nobody is
\* obliged to call the store or to stop a subscription
SpecCancelFair ==
    /\ SpecCancel
    /\ WF_vars(CallStep)
    /\ WF_vars(DispatchStep)
    /\ WF_vars(ProtocolStep)

\* SpecIso: one client applies IsoOps values to a key one after the other
\* while two subscriptions start at any time, are never cancelled, and have
\* callbacks that may panic.
IsoScript == [c \in Clients |->
                IF c = "c1"
                  THEN [i \in 1..IsoOps |-> <<"Apply", "a", 1 + (i % 2)>>]
                  ELSE <<>>]

InitIso ==
    InitWith(Impls, {[k \in Keys |-> Nil]},
             [c \in Clients |-> Len(IsoScript[c])], IsoScript, {1, 2},
             Ceiling)

NextIso ==
    \/ \E c \in Clients, k \in Keys, v \in Vals : Apply(c, k, v)
    \/ CallStep
    \/ DispatchStep
    \/ \E l \in Loops, w \in WatcherIds : OnChangePanics(l, w)
    \/ \E w \in WatcherIds : Watch(w, FALSE)
    \/ \E w \in WatcherIds : AddSweep(w)
    \/ \E w \in WatcherIds : Add(w)
    \/ \E w \in WatcherIds : List(w)
    \/ \E w \in WatcherIds : swap(w)
    \/ \E w \in WatcherIds : flush(w)
    \/ \E w \in WatcherIds : stream(w)

SpecIso == InitIso /\ [][NextIso]_vars

\* SpecIso with the goroutines of the program scheduled fairly; no callback
\* is obliged to panic
SpecIsoFair ==
    /\ SpecIso
    /\ WF_vars(CallStep)
    /\ WF_vars(DispatchStep)
    /\ WF_vars(ProtocolStep)

\* the steps in which a send on ResultChannel finds no receiver
BlockStep ==
    \/ \E l \in Loops, w \in WatcherIds : OnChangeBlocks(l, w)
    \/ \E w \in WatcherIds : ListBlocks(w)
    \/ \E w \in WatcherIds : streamBlocks(w)

\* SpecLeave: one client applies LeaveOps values to a key one after the
\* other while one subscription is asked for at any time and stopped at any
\* time, by a holder that goes on receiving or by one that does not.
LeaveScript == [c \in Clients |->
                  IF c = "c1"
                    THEN [i \in 1..LeaveOps |-> <<"Apply", "a", 1 + (i % 2)>>]
                    ELSE <<>>]

InitLeave ==
    InitWith(Impls, {[k \in Keys |-> Nil]},
             [c \in Clients |-> Len(LeaveScript[c])], LeaveScript, {1},
             Ceiling)

NextLeave ==
    \/ \E c \in Clients, k \in Keys, v \in Vals : Apply(c, k, v)
    \/ CallStep
    \/ DispatchStep
    \/ BlockStep
    \/ \E w \in WatcherIds : Watch(w, FALSE)
    \/ \E w \in WatcherIds : Stop(w)
    \/ \E w \in WatcherIds : StopLeaves(w)
    \/ ProtocolStep

SpecLeave == InitLeave /\ [][NextLeave]_vars

\* SpecLeave with the goroutines of the program scheduled fairly; nobody is
\* obliged to call the store or to stop a subscription
SpecLeaveFair ==
    /\ SpecLeave
    /\ WF_vars(CallStep)
    /\ WF_vars(DispatchStep)
    /\ WF_vars(ProtocolStep)

\* SpecCtx: a new store is started, while no dispatch loop is alive, and
\* stopped at any time, and the context given to Start is cancelled at any
\* time, while one client applies CtxOps values to a key one after the other
\* and one subscription is asked for at any time.
CtxScript == [c \in Clients |->
                IF c = "c1"
                  THEN [i \in 1..CtxOps |-> <<"Apply", "a", 1 + (i % 2)>>]
                  ELSE <<>>]

InitCtx ==
    InitNew(Impls, {[k \in Keys |-> Nil]},
            [c \in Clients |-> Len(CtxScript[c])], CtxScript, {1}, Ceiling)

NextCtx ==
    \/ \E c \in Clients, k \in Keys, v \in Vals : Apply(c, k, v)
    \/ CallStep
    \/ DispatchStep
    \/ OneLoopStep
    \/ \E l \in Loops : cancelStart(l)
    \/ \E w \in WatcherIds : Watch(w, FALSE)
    \/ \E w \in WatcherIds : AddSweep(w)
    \/ \E w \in WatcherIds : Add(w)
    \/ \E w \in WatcherIds : List(w)
    \/ \E w \in WatcherIds : swap(w)
    \/ \E w \in WatcherIds : flush(w)
    \/ \E w \in WatcherIds : stream(w)

SpecCtx == InitCtx /\ [][NextCtx]_vars

\* SpecCtx with the goroutines of the program scheduled fairly; nobody is
\* obliged to call the store, to stop it or to cancel a context
SpecCtxFair ==
    /\ SpecCtx
    /\ WF_vars(CallStep)
    /\ WF_vars(DispatchStep)
    /\ \A l \in Loops : WF_vars(WithCancel(l) \/ ctxDone(l))
    /\ WF_vars(ProtocolStep)

\* the consumer goroutine c has received an event it has not reacted to
Reacting(c) ==
    \E w \in WatcherIds :
        consumer[w] = c /\ Len(calls[c]) < Len(received[w])

\* the Store calls a consumer makes in reaction to an event
ReactStep ==
    \/ \E k \in Keys, v \in Vals :
          Reacting("c2") /\ Apply("c2", k, v)
    \/ \E k \in Keys : Reacting("c2") /\ Delete("c2", k)

\* SpecReact: one client applies a value to a key; another one subscribes,
\* receives the events of its subscription and reacts to an event with an
\* Apply or a Delete of the key, ReactOps times at most.
ReactScript == [c \in Clients |->
                  IF c = "c1" THEN << <<"Apply", "a", 2>> >> ELSE <<>>]

InitReact ==
    InitWith(Impls, {[k \in Keys |-> Nil]},
             [c \in Clients |-> IF c = "c1" THEN 1 ELSE ReactOps],
             ReactScript, {1}, Ceiling)

NextReact ==
    \/ \E k \in Keys, v \in Vals : Apply("c1", k, v)
    \/ ReactStep
    \/ \E c \in Clients : Lock(c)
    \/ \E c \in Clients : update(c)
    \/ \E c \in Clients : notifyWatcher(c)
    \/ DispatchStep
    \/ \E l \in Loops, w \in WatcherIds : OnChangeBlocks(l, w)
    \/ \E l \in Loops, w \in WatcherIds : OnChangeSent(l, w)
    \/ \E w \in WatcherIds : WatchReacting(w, "c2")
    \/ \E w \in WatcherIds : AddSweep(w)
    \/ \E w \in WatcherIds : Add(w)
    \/ \E w \in WatcherIds : List(w)
    \/ \E w \in WatcherIds : swap(w)
    \/ \E w \in WatcherIds : flush(w)
    \/ \E w \in WatcherIds : streamBlocks(w)
    \/ \E w \in WatcherIds : stream(w)

SpecReact == InitReact /\ [][NextReact]_vars

\* SpecReact with the goroutines of the program scheduled fairly; no
\* consumer is obliged to react
SpecReactFair ==
    /\ SpecReact
    /\ WF_vars(CallStep)
    /\ WF_vars(DispatchStep)
    /\ WF_vars(\E l \in Loops, w \in WatcherIds : OnChangeSent(l, w))
    /\ WF_vars(ProtocolStep)

\* SpecFn: a store of any package, started or not, with two keys; the
\* clients call UpdateWithKeyFn and, on the in-memory stores, Apply, and one
\* subscription is asked for at any time.
FnStep ==
    \/ \E c \in Clients, k \in Keys, f \in FnIds : UpdateWithKeyFn(c, k, f)
    \/ \E c \in Clients : LockFn(c)
    \/ \E c \in Clients : updateFn(c)
    \/ \E c \in Clients : writeFile(c)

InitFn ==
    \/ InitWith(Impls \cup {"file"}, {[k \in FnKeys |-> Nil]},
                [c \in Clients |-> FnOps], NoScript, {1}, Ceiling)
    \/ InitNew(Impls \cup {"file"}, {[k \in FnKeys |-> Nil]},
               [c \in Clients |-> FnOps], NoScript, {1}, Ceiling)

NextFn ==
    \/ FnStep
    \/ impl \in Impls /\ \E c \in Clients, k \in FnKeys : Apply(c, k, 2)
    \/ CallStep
    \/ DispatchStep
    \/ \E w \in WatcherIds : Watch(w, FALSE)
    \/ \E w \in WatcherIds : AddSweep(w)
    \/ \E w \in WatcherIds : Add(w)
    \/ \E w \in WatcherIds : List(w)
    \/ \E w \in WatcherIds : swap(w)
    \/ \E w \in WatcherIds : flush(w)
    \/ \E w \in WatcherIds : stream(w)

SpecFn == InitFn /\ [][NextFn]_vars

\* ------------------------------------------------------------------ claims
\* no Store call is in progress and the dispatch loop is back at its select
Quiescent ==
    /\ \A l \in Loops : dpc[l] # "wait"
    /\ \A c \in Clients : cpc[c] = "idle"

\* the subscription has reached streaming mode and is not cancelled
Streaming(w) == wpc[w] = "select" /\ ~cancelled[w]

\* the calls whose event the consumer of w received
ReceivedIds(w) == {received[w][i].id : i \in DOMAIN received[w]}

\* C1: no silent loss.  Once nothing is in flight any more, a registered,
\* streaming subscription has received the event of every call whose change of
\* the stored state was committed after its registration and was not already
\* part of its list snapshot.
C1_NoSilentLoss ==
    Quiescent =>
        \A w \in watchers : Streaming(w) => mustSee[w] \subseteq ReceivedIds(w)

\* the place of the event of call id in the order in which the dispatch loop
\* received the events from watchCh
EmitPos(id) == CHOOSE i \in DOMAIN emitted : emitted[i].id = id

\* the events the consumer of w received that came through watchCh
FromStore(w) ==
    SelectSeq(received[w],
              LAMBDA g : g.via \in {"backlog", "squeezed", "stream"})

Exhausted == "max number of watchers reached"

\* the registry is full of subscriptions none of which is done
FullAndLive ==
    /\ Cardinality(watchers) = size
    /\ \A x \in watchers : ~cancelled[x]

\* C3: admission ceiling.  The registry never holds more subscriptions than
\* the ceiling given to watchermanager.New.
C3_AdmissionCeiling == Cardinality(watchers) <= size

\* C4: released exactly once.  No subscription is removed and released twice,
\* the semaphore is never released below zero, and the units held are as many
\* as the registry entries.
C4_ReleasedOnce ==
    /\ \A w \in WatcherIds : relCount[w] <= 1
    /\ ~panicked
    /\ sem = Cardinality(watchers)

\* C5: Add at the ceiling.  An Add whose TryAcquire runs while the registry
\* holds as many subscriptions as the ceiling, none of them done, fails and
\* leaves the registry as it is; an Add whose sweep removed a cancelled
\* subscription succeeds.
C5_AddAtCeiling ==
    [][\A w \in WatcherIds :
          wpc[w] = "Add" /\ wpc'[w] # "Add" =>
              /\ FullAndLive =>
                    werr'[w] = Exhausted /\ watchers' = watchers
              /\ swept[w] # {} =>
                    werr'[w] = None /\ w \in watchers']_vars

Observed(w) == [i \in DOMAIN received[w] |->
                  <<received[w][i].type, received[w][i].val>>]

\* the events of the scenario
ScnEvents == << <<"Added", 1>>, <<"Modified", 2>>, <<"Deleted", 2>> >>

\* the calls of the scenario have returned and everything emitted has reached
\* the consumer of w
ScnDone(w) ==
    /\ cleft["c1"] = 0
    /\ Quiescent
    /\ Streaming(w)

IsPrefix(s, t) == Len(s) <= Len(t) /\ \A i \in DOMAIN s : s[i] = t[i]

\* the first call of the scenario
FirstCall == <<"c1", Len(ScnScript["c1"])>>

\* C7 as stated: the subscription whose Watch call returned before the first
\* call of the scenario has observed exactly Added(1), Modified(2), Deleted(2)
\* once the scenario is over.
C7_WatchedBeforeCreate == ScnDone(1) => Observed(1) = ScnEvents

\* C7 amended: a subscription whose registration, and list if it asked for
\* one, were complete before the Create of the scenario wrote the store
\* observes a prefix of Added(1), Modified(2), Deleted(2) at any time and all
\* of it once the scenario is over.
C7_SyncedBeforeCreate ==
    FirstCall \in mustSee[1] =>
        /\ IsPrefix(Observed(1), ScnEvents)
        /\ ScnDone(1) => Observed(1) = ScnEvents

\* the scenario is over for a subscription that was complete before the
\* Create, in package memoryu, and it received events from the backlog
C7_Witness ==
    /\ FirstCall \in mustSee[1]
    /\ ScnDone(1)
    /\ impl = "memoryu"
    /\ Len(calls["c1"]) = 4
    /\ \E i \in DOMAIN received[1] : received[1][i].via = "backlog"

\* the finished calls of the sequential client
Past == calls["c1"]

\* the type, key and object of an event
Shown(ev) == <<ev.type, ev.key, ev.val>>

\* how many of the events received from watchCh belong to the call of ev
EmittedFor(ev) ==
    Cardinality({j \in DOMAIN emitted : emitted[j].id = ev.id})

C9_CreateExclusive ==
    \A i \in DOMAIN Past :
        i + 1 \in DOMAIN Past /\ Past[i].op = "Create"
          /\ Past[i + 1].op = "Create" /\ Past[i + 1].key = Past[i].key =>
            /\ Past[i + 1].ret = "duplicate entry"
            /\ Past[i + 1].ev = NoEvent
            /\ Past[i + 1].post = Past[i].post
            /\ Past[i].ret = "nil" => Past[i + 1].post = Past[i].val

\* Create(k,1) succeeded and Create(k,2) was called right after it
C9_Witness ==
    /\ Len(Past) >= 2
    /\ Past[1].op = "Create" /\ Past[1].ret = "nil" /\ Past[1].val = 1
    /\ Past[2].op = "Create" /\ Past[2].val = 2

\* C10: Delete idempotence.  A Delete returns success and leaves its key
\* absent; on an absent key it emits nothing, on a present key it emits one
\* Deleted event, once, carrying what was stored before.
C10_DeleteIdempotent ==
    \A i \in DOMAIN Past :
        Past[i].op = "Delete" =>
            /\ Past[i].ret = "nil"
            /\ Past[i].post = Nil
            /\ Past[i].pre = Nil => Past[i].ev = NoEvent
            /\ Past[i].pre # Nil =>
                  /\ Shown(Past[i].ev) = <<"Deleted", Past[i].key, Past[i].pre>>
                  /\ EmittedFor(Past[i].ev) = 1

\* a Delete of a present key was followed by a Delete of the then absent key
C10_Witness ==
    /\ Len(Past) >= 2
    /\ Past[1].op = "Delete" /\ Past[1].pre # Nil
    /\ Past[2].op = "Delete" /\ Past[2].pre = Nil
    /\ Len(emitted) = 1

\* C11: delete before emit.  When a Delete hands its Deleted event to watchCh
\* the key of the event is absent from the store.
C11_DeletedAfterRemoval ==
    \A c \in Clients :
        cpc[c] = "send" /\ cop[c].op = "Delete" => db[cop[c].key] = Nil

\* C12: one event per change.  A call whose write changes the stored state
\* hands its event to watchCh, after the write or, for a Delete that notifies
\* first, before it; an Update whose write leaves the stored value as it was
\* returns without an event.
C12_OneEventPerChange ==
    [][\A c \in Clients :
          cpc[c] = "locked" /\ cpc'[c] # "locked" =>
              /\ db' # db =>
                    cpc'[c] = "notify" \/ csent[c] = EventOf(cop[c], cold[c])
              /\ cop[c].op = "Update" /\ db' = db => cpc'[c] = "idle"]_vars

\* C13: serialized read-modify-write.  The value a call read from the store
\* for its existence probe and its comparison is the value its write replaces.
C13_SerializedWrite ==
    [][\A c \in Clients :
          cpc[c] = "locked" /\ cpc'[c] # "locked" =>
              cold[c] = db[cop[c].key]]_vars

\* C15: watch-only.  The consumer of a subscription whose list option has
\* Watch set receives no event of a list.
C15_WatchOnlySkipsList ==
    \A w \in WatcherIds :
        watchOnly[w] =>
            \A i \in DOMAIN received[w] : received[w][i].via # "list"

\* C20: Apply.  An Apply(k,v) returns success with v stored and hands one
\* event to watchCh, once: Added when k was absent, Modified when k was
\* present, whatever it held.
C20_ApplyByExistence ==
    \A i \in DOMAIN Past :
        Past[i].op = "Apply" =>
            /\ Past[i].ret = "nil"
            /\ Past[i].post = Past[i].val
            /\ EmittedFor(Past[i].ev) = 1
            /\ Shown(Past[i].ev) =
                  <<IF Past[i].pre = Nil THEN "Added" ELSE "Modified",
                    Past[i].key, Past[i].val>>

\* Apply(k,v) was called on an absent key and again on the key holding v
C20_Witness ==
    /\ Len(Past) >= 2
    /\ Past[1].op = "Apply" /\ Past[1].pre = Nil
    /\ Past[2].op = "Apply" /\ Past[2].pre = Past[2].val
    /\ Len(emitted) = 2

\* the calls whose event the dispatch loop received from watchCh
EmittedIds == {emitted[j].id : j \in DOMAIN emitted}

\* C14: lifecycle gate.  While the store is not started no call sends or
\* waits to send on watchCh; a call that returned success without an event
\* has left its object stored; and no consumer ever holds an event of the
\* store that was not sent on watchCh.
C14_LifecycleGate ==
    [][/\ ~watching =>
             emitted' = emitted /\ \A c \in Clients : cpc'[c] # "send"
       /\ \A i \in DOMAIN Past' :
             Past'[i].ev = NoEvent /\ Past'[i].ret = "nil" =>
                 Past'[i].post = Past'[i].val
       /\ \A w \in WatcherIds :
             \A i \in DOMAIN FromStore(w)' :
                 FromStore(w)'[i].id \in EmittedIds']_vars

\* a Create made while the store was not started stored its object without
\* an event; after a Start a subscription listed and streams, and a later
\* call reached its consumer while the Create did not
C14_Witness ==
    /\ Len(Past) = 2
    /\ Past[1].op = "Create" /\ Past[1].ret = "nil" /\ Past[1].ev = NoEvent
    /\ Past[2].ev # NoEvent
    /\ watching
    /\ Len(FromStore(1)) = 1

\* C18: manager stop.  Once watcherManager.Stop has cancelled the dispatch
\* loop, a subscription that is in streaming mode ends with its Error event.
C18_StopEndsSubscriptions ==
    \A w \in WatcherIds :
        (\E l \in Loops : mctx[l] = "cancelled") /\ wpc[w] = "select" ~>
            (wpc[w] = "stopped")

\* ResultChannel has been closed: no statement of the repository closes it
ResultChanClosed(w) == FALSE

\* C16: closed after Stop.  Once Stop has been called on a subscription its
\* ResultChannel is eventually closed.
C16_ClosedAfterStop ==
    \A w \in WatcherIds : cancelled[w] ~> ResultChanClosed(w)

\* the Error events the consumer of w received
Errors(w) == SelectSeq(received[w], LAMBDA g : g.type = "Error")

\* C17: cancellation.  A subscription is marked done only after its token
\* fired; a protocol that ended on the token has marked it done and pushed
\* one Error event, the last thing its consumer received; once it is marked
\* done its callback neither buffers nor forwards an event and the delivery
\* goroutine that called it removes the subscription; and a subscription
\* whose token fired is eventually done with its Error event delivered.
C17_DoneAfterCancel ==
    /\ [][\A w \in WatcherIds :
             /\ done'[w] => cancelled'[w]
             /\ wpc'[w] = "stopped" /\ werr'[w] = "context canceled" =>
                   /\ done'[w]
                   /\ Len(Errors(w)') = 1
                   /\ received'[w][Len(received'[w])].type = "Error"
             /\ done[w] =>
                   /\ backlog'[w] = backlog[w]
                   /\ FromStore(w)' = FromStore(w)
             /\ \A l \in Loops :
                   /\ done[w]
                   /\ dtask[l][w] = "OnChange"
                   /\ dtask'[l][w] = "none"
                   => w \notin watchers']_vars
    /\ \A w \in WatcherIds :
          cancelled[w] ~>
              (wpc[w] = "stopped" /\ done[w] /\ Len(Errors(w)) = 1)

\* the protocol ended on the token after the callback of the done
\* subscription had refused an event
C17_Witness ==
    /\ wpc[1] = "stopped"
    /\ werr[1] = "context canceled"
    /\ done[1]
    /\ relCount[1] = 1
    /\ Len(emitted) = 2
    /\ Len(FromStore(1)) = 1

InFn == {c \in Clients : cop[c].op = "UpdateWithKeyFn"}

\* C21: UpdateWithKeyFn.  The step in which an UpdateWithKeyFn call writes
\* stores updateFunc of the object the call read, the zero value if the key
\* was absent, for its key and changes no other key; a call with a nil
\* updateFunc changes nothing; and no step of the call hands an event to
\* watchCh or changes what the dispatch loop and the subscriptions hold.
C21_UpdateWithKeyFn ==
    [][\A c \in InFn :
          cpc'[c] # cpc[c] =>
             /\ cpc'[c] \notin {"notify", "send"}
             /\ csent' = csent /\ emitted' = emitted
             /\ UNCHANGED <<managerVars, dispatchVars, watcherVars>>
             /\ \A k \in DOMAIN db : k # cop[c].key => db'[k] = db[k]
             /\ cpc'[c] = "idle" =>
                   LET r == calls'[c][Len(calls'[c])]
                   IN /\ r.ev = NoEvent
                      /\ db'[r.key] = r.post
                      /\ r.post = IF r.val = NilFn THEN r.pre
                                   ELSE updateFunc(r.val, r.pre)
                      /\ r.val = NilFn => db' = db]_vars

\* on a started store with a streaming subscription a stored object was
\* replaced by updateFunc of it, and the subscription received nothing for it
C21_Witness ==
    /\ watching
    /\ wpc[1] = "select"
    /\ 1 \in watchers
    /\ Len(calls["c1"]) = 1 /\ Len(calls["c2"]) = 1
    /\ calls["c1"][1].op = "Apply" /\ calls["c1"][1].ev # NoEvent
    /\ calls["c2"][1].op = "UpdateWithKeyFn" /\ calls["c2"][1].val = 1
    /\ calls["c2"][1].pre = 2 /\ calls["c2"][1].post = 1
    /\ db = [k \in FnKeys |-> IF k = "a" THEN 1 ELSE Nil]
    /\ Len(received[1]) = 1

\* C22: UpdateWithKeyFn is atomic.  The object an UpdateWithKeyFn call
\* replaces is the object it applied updateFunc to.
C22_FnAtomic ==
    [][\A c \in InFn :
          cpc'[c] = "idle" /\ cop[c].val # NilFn =>
              db'[cop[c].key] = updateFunc(cop[c].val, db[cop[c].key])]_vars

\* the dispatch loops that have delivery tasks in flight
Delivering ==
    {l \in Loops : \E w \in WatcherIds : dtask[l][w] # "none"}

\* C23: strict serialization.  A dispatch loop receives from watchCh only
\* when none of its delivery tasks is in flight, and the delivery tasks in
\* flight at any time all belong to one event.
C23_StrictSerialization ==
    /\ \A l \in Delivering : dpc[l] = "wait"
    /\ \A l, m \in Delivering : dev[l] = dev[m]

\* the dispatch loops at the select of watcherManager.Start or delivering
Receiving == {l \in Loops : dpc[l] \in {"recv", "wait"}}

\* C24: single dispatch loop.  At most one dispatch loop is receiving from
\* watchCh at any time, and when Stop has returned no dispatch loop stays
\* alive unless the store is started again.
C24_SingleLoop ==
    /\ [](Cardinality(Receiving) <= 1)
    /\ ~watching ~> (watching \/ \A l \in Loops : dpc[l] \in {"off", "exited"})

\* a received event without the way it took
Bare(g) == WatchEvent(g.type, g.key, g.val, g.id)

\* the events the consumer of w received through the callback
Forwarded(w) == [i \in DOMAIN FromStore(w) |-> Bare(FromStore(w)[i])]

\* the events the callback of w took, in the order of their way to the
\* consumer: forwarded, in the chunk being replayed, or in the backlog
Accepted(w) ==
    Forwarded(w) \o chunk[w] \o
        (IF eventCallback[w] = "backlog" THEN backlog[w] ELSE <<>>)

\* C25: exactly once.  The events a callback took are those it was called
\* with while the subscription was not done, each once: a call of the
\* callback adds its event, no other step adds, drops or repeats one, and
\* from the switch to streaming on all of them have been forwarded.
C25_ExactlyOnce ==
    /\ [][\A w \in WatcherIds :
             /\ \A l \in Loops :
                   /\ dtask[l][w] = "OnChange"
                   /\ dtask'[l][w] = "none"
                   /\ ~done[w]
                   => Accepted(w)' = Append(Accepted(w), dev[l])
             /\ (\A l \in Loops : dtask'[l][w] = dtask[l][w])
                   => Accepted(w)' = Accepted(w)]_vars
    /\ [](\A w \in WatcherIds :
             eventCallback[w] = "stream" => Forwarded(w) = Accepted(w))

\* the consumer received one event replayed from a drain pass, one that
\* arrived after the last, empty, drain pass, and one streamed
C25_Witness ==
    /\ Len(FromStore(1)) = OrdOps
    /\ FromStore(1)[1].via = "backlog"
    /\ FromStore(1)[2].via = "squeezed"
    /\ FromStore(1)[OrdOps].via = "stream"

\* C26: snapshot first.  No Added event of the list snapshot reaches a
\* consumer after an event that came through the callback of its subscription.
C26_SnapshotFirst ==
    \A w \in WatcherIds :
        \A i, j \in DOMAIN received[w] :
            i < j /\ received[w][j].via = "list" => received[w][i].via = "list"

\* a consumer received a listed object, then a replayed and a streamed event
C26_Witness ==
    /\ Len(received[1]) = OrdOps
    /\ received[1][1].via = "list"
    /\ received[1][2].via = "backlog"
    /\ received[1][3].via = "stream"

\* C27: register before list.  While the snapshot List has not been made the
\* subscription is registered with the buffering callback installed, and a
\* call of the buffering callback sends nothing to the consumer.
C27_RegisterBeforeList ==
    /\ [](\A w \in WatcherIds :
             wpc[w] = "List" => eventCallback[w] = "backlog" /\ w \in watchers)
    /\ [][\A w \in WatcherIds :
             /\ eventCallback[w] = "backlog"
             /\ \E l \in Loops : dtask'[l][w] # dtask[l][w]
             => received'[w] = received[w]]_vars

\* an event racing with the list is in the backlog when the list begins
C27_Witness ==
    /\ wpc[1] = "List"
    /\ db["a"] # Nil
    /\ backlog[1] # <<>>
    /\ received[1] = <<>>

\* the subscription is admitted and lists or drains its backlog
Draining(w) == wpc[w] \in {"List", "swap", "flush", "stream"}

\* C28: draining converges.  An admitted subscription eventually leaves the
\* drain loop and installs the forwarding callback.
C28_DrainConverges ==
    \A w \in WatcherIds : Draining(w) ~> eventCallback[w] = "stream"

\* a subscription reached streaming mode after it replayed every event of
\* the store from its backlog
C28_Witness ==
    /\ eventCallback[1] = "stream"
    /\ ~cancelled[1]
    /\ Len(FromStore(1)) = CancelOps
    /\ \A i \in DOMAIN FromStore(1) : FromStore(1)[i].via = "backlog"

\* C29: lazy eviction.  A step that cancels a subscription changes neither
\* the registry nor the semaphore; a subscription leaves the registry only
\* cancelled, in an Add sweep or in a delivery task; and the Add sweep whose
\* list holds a cancelled subscription, and the delivery task that finds it
\* cancelled, remove it and release a slot for it.
C29_LazyEviction ==
    [][\A w \in WatcherIds :
          /\ ~cancelled[w] /\ cancelled'[w] =>
                watchers' = watchers /\ sem' = sem
          /\ w \in watchers /\ w \notin watchers' =>
                /\ cancelled[w]
                /\ relCount'[w] = relCount[w] + 1
                /\ \/ \E x \in WatcherIds :
                         wpc[x] = "AddSweep" /\ wpc'[x] = "Add"
                   \/ \E l \in Loops : dtask'[l][w] # dtask[l][w]
          /\ \A x \in WatcherIds :
                /\ wpc[x] = "AddSweep" /\ wpc'[x] = "Add"
                /\ w \in sweep[x] /\ cancelled[w]
                => w \notin watchers' /\ relCount'[w] = relCount[w] + 1
          /\ \A l \in Loops :
                /\ dtask[l][w] = "isDone" /\ dtask'[l][w] # "isDone"
                /\ cancelled[w]
                => w \notin watchers' /\ relCount'[w] = relCount[w] + 1]_vars

\* a cancelled subscription whose protocol had ended stayed registered until
\* the Add of the next subscription swept it
C29_Witness ==
    /\ wpc[1] = "stopped"
    /\ swept[2] = {1}
    /\ 1 \notin watchers
    /\ relCount[1] = 1
    /\ 2 \in watchers

\* C30: eviction in a dispatch cycle.  A delivery task is made only for a
\* subscription that is registered when the event is received; a task whose
\* isDone reports an error removes the subscription and ends without calling
\* the callback; a task whose callback returns false removes the subscription.
C30_DispatchEviction ==
    [][\A l \in Loops, w \in WatcherIds :
          /\ dtask[l][w] = "none" /\ dtask'[l][w] # "none" => w \in watchers
          /\ dtask[l][w] = "isDone" /\ dtask'[l][w] # "isDone" /\ cancelled[w]
                => /\ dtask'[l][w] = "none"
                   /\ w \notin watchers'
                   /\ backlog'[w] = backlog[w]
                   /\ received'[w] = received[w]
          /\ dtask[l][w] = "OnChange" /\ dtask'[l][w] = "none" /\ done[w]
                => w \notin watchers']_vars

\* a task found the subscription cancelled and removed it; the event of the
\* next call was delivered to nobody
C30_Witness ==
    /\ 1 \notin watchers
    /\ relCount[1] = 1
    /\ ~done[1]
    /\ Len(emitted) = CancelOps
    /\ Quiescent
    /\ FromStore(1) = <<>>
    /\ backlog[1] = <<>>

\* C31: failure isolation.  When the callback of a subscription panics on an
\* event, the subscription is removed from the registry, the other delivery
\* tasks of the event end, and the dispatch loop returns to its select to
\* receive later events.
C31_FailureIsolation ==
    \A l \in Loops, w \in WatcherIds :
        dtask[l][w] = "panic" ~>
            /\ w \notin watchers
            /\ \A x \in WatcherIds \ {w} : dtask[l][x] = "none"
            /\ dpc[l] = "recv"

\* the events of key k the dispatch loop received from watchCh, in order
EmittedOf(k) == SelectSeq(emitted, LAMBDA e : e.key = k)

\* C32: emission in the order of persistence.  Once every call has returned,
\* when the last event handed to watchCh for a key is an Added or a Modified
\* event, the value stored for the key is the value of that event.
C32_LastEventIsStored ==
    \A k \in Keys :
        /\ Quiescent
        /\ EmittedOf(k) # <<>>
        /\ EmittedOf(k)[Len(EmittedOf(k))].type \in {"Added", "Modified"}
        => db[k] = EmittedOf(k)[Len(EmittedOf(k))].val

\* the clients whose single call was a Create that returned ret
Created(ret) ==
    {c \in Clients : calls[c] # <<>> /\ calls[c][1].op = "Create"
                                     /\ calls[c][1].ret = ret}

\* C33: concurrent Create.  When every client has made one Create call for
\* a key that was absent, exactly one of the calls returned success and the
\* others the duplicate entry error, the value of the successful call is
\* stored, and one Added event was handed to watchCh.
C33_OneCreateWins ==
    /\ Quiescent
    /\ Created("nil") \cup Created("duplicate entry") = Clients
    /\ \E c \in Clients : calls[c][1].pre = Nil
    => /\ Cardinality(Created("nil")) = 1
       /\ \A c \in Created("nil") : db[calls[c][1].key] = calls[c][1].val
       /\ Len(SelectSeq(emitted, LAMBDA e : e.type = "Added")) = 1

\* the events of evs that tell of key k
Telling(evs, k) ==
    SelectSeq(evs, LAMBDA g : g.key = k /\ g.type \in {"Added", "Modified",
                                                        "Deleted"})

\* the key/value map a consumer builds from the events evs: Added and
\* Modified set the value of their key, Deleted removes the key
Fold(evs) ==
    [k \in Keys |->
        LET es == Telling(evs, k)
        IN IF es = <<>> \/ es[Len(es)].type = "Deleted" THEN Nil
           ELSE es[Len(es)].val]

\* C34: watch cache convergence.  Once every call has returned and every
\* event is delivered, the map folded from what the consumer of a registered,
\* streaming subscription received is the content of the store.
C34_CacheConverges ==
    \A w \in watchers :
        Quiescent /\ Streaming(w) => Fold(received[w]) = db

\* C35: a cancelled subscription cannot stall the system.  Whatever
\* subscription is stopped by a holder that no longer receives, a dispatch
\* loop that waits for the delivery tasks of an event returns to its select,
\* and a Store call that was entered returns.
C35_NoStall ==
    /\ \A l \in Loops : dpc[l] = "wait" ~> dpc[l] = "recv"
    /\ \A c \in Clients : cpc[c] # "idle" ~> cpc[c] = "idle"

\* the dispatch loops that run or are about to run
Alive == {l \in Loops : dpc[l] \in {"spawned", "recv", "wait"}}

\* C36: a loop behind the gate.  While the watching flag of the store is
\* true a dispatch loop is running or about to run, and every Store call
\* that was entered returns.
C36_LoopWhileWatching ==
    /\ [](watching => Alive # {})
    /\ \A c \in Clients : cpc[c] # "idle" ~> cpc[c] = "idle"

\* the forwarding callback of a subscription waits for its consumer, the
\* consumer waits in its send on watchCh for a dispatch loop, and every
\* dispatch loop waits for its delivery tasks or is gone
CircularWait ==
    \E w \in WatcherIds :
        /\ consumer[w] \in Clients
        /\ cpc[consumer[w]] = "send"
        /\ \E l \in Loops : dtask[l][w] = "sending"
        /\ \A l \in Loops : dpc[l] # "recv"

\* C37: reacting consumers do not deadlock.  With a consumer that calls the
\* store after it received an event and then receives again, the callback,
\* the consumer and the dispatch loop never wait on each other, and every
\* Store call that was entered returns.
C37_NoDeadlock ==
    /\ [](~CircularWait)
    /\ \A c \in Clients : cpc[c] # "idle" ~> cpc[c] = "idle"

\* C38: the Error event is terminal.  A consumer has received at most one
\* Error event, and an Error event is the last event it has received.
C38_ErrorIsLast ==
    \A w \in WatcherIds :
        /\ Len(Errors(w)) <= 1
        /\ \A i \in DOMAIN received[w] :
              received[w][i].type = "Error" => i = Len(received[w])

\* the consumer received events and then the Error event while a delivery
\* task for its subscription, made before the cancellation, is in flight
C38_Witness ==
    /\ wpc[1] = "stopped"
    /\ Len(received[1]) >= 2
    /\ received[1][Len(received[1])].type = "Error"
    /\ \E l \in Loops : dtask[l][1] = "OnChange"

====
